---- MODULE Spec2Model ----
(***************************************************************************)
(* Synthetic non-cry mixture generation (scripts/generate_synthetic_noncry *)
(* .py) and the soundbank generators (scripts/create_synthetic_soundbank   *)
(* .py).                                                                   *)
(*                                                                         *)
(* Number representation.                                                  *)
(*   time      integer ticks of a power of two of a second, so that every  *)
(*             time of the model is a float the code holds exactly and     *)
(*             SR * time is computed without rounding.  A duration d is    *)
(*             2 * d + 1 ticks of 1 / DurTicks s, so that SR * duration    *)
(*             is never a whole number of samples and the code's           *)
(*             max_start * rand() * SR is a whole number only at rand() =  *)
(*             0: everywhere else its integer part is that of the exact    *)
(*             product and does not depend on float rounding.  An onset    *)
(*             is in finer ticks of 1 / OnsetTicks s.                      *)
(*   samples   integers in units of 1 / AmpScale = 2^-16, so that every    *)
(*             sample and every square is exact in float32 and in float64  *)
(*             and no mean of squares is at the power epsilon 1e-10: the   *)
(*             comparison gives one answer for both dtypes.  The model     *)
(*             explores small amplitudes, where the epsilon branches are   *)
(*             taken both ways.  A normalized buffer is in units of        *)
(*             1 / OutScale = 1e-5, in which 0.9 is a whole number.        *)
(*   gain      fixed point, in units of 1 / ScaleOne; an SNR is in units   *)
(*             of 1 / RandDen dB, in which every drawn SNR is whole.       *)
(*   buffers   a numpy array is a run-length encoded sequence of samples:  *)
(*             a sequence of runs [n |-> count, v |-> value], count > 0,   *)
(*             neighbouring runs of different value.  The encoding is      *)
(*             lossless: two buffers are equal iff they hold the same      *)
(*             samples.  It lets buffers keep the lengths the code gives   *)
(*             them at SR = 16000.                                         *)
(*   random    a call of np.random returns a value chosen from the call's  *)
(*             result set; rand() returns c / RandDen for c in             *)
(*             0 .. RandDen-1.  A generator's waveform is a function of    *)
(*             its length and of its draws: the model keeps its length,    *)
(*             its zero samples and an amplitude level set by its draw.    *)
(***************************************************************************)
EXTENDS Integers, Sequences, FiniteSets

\* ------------------------------------------------------------- constants

SR == 16000

\* Amplitude 1.0 in sample units of 2^-16.
AmpScale == 65536

\* Amplitude 1.0 in the units of a normalized buffer.
OutScale == 100000

\* The gain 1.0 in fixed point.
ScaleOne == 1000

\* ---------------------------------------------------------------- bounds

\* rand() returns c / 2^RandBits, c in 0 .. 2^RandBits - 1.
RandBits == 1

\* A duration tick is 2^-(8 + SubBits) s, 125 / 2^(SubBits + 1) of a sample
\* period.
SubBits == 8

\* Longest explicit buffer handed to the compositor as a free input.
MaxLen == 3

RandDen == 2 ^ RandBits

\* Duration ticks in a second.
DurTicks == 2 ^ (8 + SubBits)

\* The ticks of the duration d.
Ticks(d) == 2 * d + 1

\* Onset ticks in a second: fine enough that a product max_start * rand(),
\* rounded up to a tick, stays within the sample period it is in.
OnsetTicks == 2 ^ (15 + SubBits + RandBits)

\* floor(SR * t / q) for a time of t ticks of 1 / (128 * q) s (SR = 125 * 128).
SamplesIn(t, q) == (t \div q) * 125 + ((t % q) * 125) \div q

\* ----------------------------------------------------- buffers (numpy arrays)

Abs(x) == IF x < 0 THEN -x ELSE x

Min(a, b) == IF a < b THEN a ELSE b

Max(a, b) == IF a < b THEN b ELSE a

RECURSIVE BufLen(_)
\* len(x)
BufLen(b) == IF b = <<>> THEN 0 ELSE Head(b).n + BufLen(Tail(b))

RECURSIVE Canon(_)
\* The encoding's normal form: no empty run, no two neighbours of one value.
Canon(b) ==
    IF b = <<>> THEN <<>>
    ELSE IF Head(b).n <= 0 THEN Canon(Tail(b))
    ELSE LET r == Canon(Tail(b)) IN
         IF r # <<>> /\ Head(r).v = Head(b).v
         THEN <<[n |-> Head(b).n + Head(r).n, v |-> Head(b).v]>> \o Tail(r)
         ELSE <<Head(b)>> \o r

RECURSIVE Take(_, _)
\* x[:m], 0 <= m
Take(b, m) ==
    IF m <= 0 \/ b = <<>> THEN <<>>
    ELSE IF Head(b).n <= m THEN <<Head(b)>> \o Take(Tail(b), m - Head(b).n)
    ELSE <<[n |-> m, v |-> Head(b).v]>>

RECURSIVE Drop(_, _)
\* x[m:], 0 <= m
Drop(b, m) ==
    IF m <= 0 \/ b = <<>> THEN b
    ELSE IF Head(b).n <= m THEN Drop(Tail(b), m - Head(b).n)
    ELSE <<[n |-> Head(b).n - m, v |-> Head(b).v]>> \o Tail(b)

\* x[lo:hi], 0 <= lo; a slice past the end is cut at the end, an empty or
\* reversed range is the empty array.
Slice(b, lo, hi) == Take(Drop(b, lo), hi - lo)

\* A constant array of n samples of value v.
Const(n, v) == IF n <= 0 THEN <<>> ELSE <<[n |-> n, v |-> v]>>

RECURSIVE FromSeq(_)
\* The array holding the samples of the sequence s.
FromSeq(s) ==
    IF s = <<>> THEN <<>> ELSE Canon(<<[n |-> 1, v |-> Head(s)]>> \o FromSeq(Tail(s)))

RECURSIVE SumSq(_)
\* sum(x ** 2)
SumSq(b) == IF b = <<>> THEN 0 ELSE Head(b).n * Head(b).v * Head(b).v + SumSq(Tail(b))

RECURSIVE Peak(_)
\* np.max(np.abs(x)), x not empty
Peak(b) == IF b = <<>> THEN 0 ELSE Max(Abs(Head(b).v), Peak(Tail(b)))

\* floor(n * 1e-10 * AmpScale^2) = floor(n * 0.4294967296), the power epsilon
\* summed over n samples, in squared units.
EpsSum(n) == (n * 42949 + (n * 67296) \div 100000) \div 100000

\* The dtype of an array.
DTypes == {"float32", "float64"}

\* How the installed numpy compares a float32 scalar with the Python float
\* 1e-10: as doubles (numpy 1.x), or as float32 with the constant rounded to
\* float32 (numpy 2.x).
Promotions == {"legacy", "nep50"}

\* np.float32(1e-10) is Eps32 * 2^-57, the float32 next above 1e-10.
Eps32 == 14411519

\* floor(n * a / 2^26), 0 <= n, 0 <= a < 2^26
MulShift26(n, a) ==
    LET n1 == n \div 8192
        n0 == n % 8192
        a1 == a \div 8192
        a0 == a % 8192
    IN n1 * a1 + (n1 * a0 + n0 * a1 + (n0 * a0) \div 8192) \div 8192

\* np.mean(x ** 2) > 1e-10 for an array x of n samples.  The squares and
\* their sum s are exact; the mean of a float64 array is compared as it is.
\* The mean of a float32 array is s / n rounded to float32, in units of
\* 2^-32 the nearest multiple of 2^-25: it is above the double 1e-10 when it
\* is np.float32(1e-10) at least, s / n > (2 * Eps32 - 1) / 2^26, and above
\* np.float32(1e-10) when s / n >= (2 * Eps32 + 1) / 2^26.
PowerAboveEps(b, dtype, rule) ==
    LET s == SumSq(b)
        n == BufLen(b)
    IN CASE dtype = "float64" -> s > EpsSum(n)
         [] dtype = "float32" /\ rule = "legacy" ->
                s > MulShift26(n, 2 * Eps32 - 1)
         [] dtype = "float32" /\ rule = "nep50" ->
                s >= MulShift26(n, 2 * Eps32 + 1)
                         + (IF n % (2 ^ 26) = 0 THEN 0 ELSE 1)

\* ------------------------------------------------------------ fixed point

RECURSIVE IsqrtIn(_, _, _)
\* The largest r in lo .. hi with r * r <= x (lo * lo <= x).
IsqrtIn(x, lo, hi) ==
    IF lo >= hi THEN lo
    ELSE LET mid == (lo + hi + 1) \div 2 IN
         IF mid * mid <= x THEN IsqrtIn(x, mid, hi) ELSE IsqrtIn(x, lo, mid - 1)

\* floor(sqrt(x)), 0 <= x
Isqrt(x) == IsqrtIn(x, 0, Min(x, 46340))

\* a / b in units of 1e-4, b > 0.
RatioFP(a, b) == (a \div b) * 10000 + ((a % b) * 10000) \div b

\* 10 ** (k / 20) in thousandths, k whole dB in 0 .. 20.
Amp10Table ==
    <<1000, 1122, 1259, 1413, 1585, 1778, 1995, 2239, 2512, 2818, 3162,
      3548, 3981, 4467, 5012, 5623, 6310, 7079, 7943, 8913, 10000>>

\* 10 ** (2^-k / 20) in thousandths, k in 1 .. 5.
AmpBitTable == <<1059, 1029, 1014, 1007, 1004>>

RECURSIVE AmpFrac(_, _, _)
\* a * 10 ** (f / RandDen / 20), f in 0 .. RandDen-1, from the bit k of f on.
AmpFrac(a, f, k) ==
    IF k > RandBits THEN a
    ELSE AmpFrac(IF (f \div 2 ^ (RandBits - k)) % 2 = 1
                 THEN (a * AmpBitTable[k]) \div 1000 ELSE a, f, k + 1)

\* 10 ** (snr_db / 20) in thousandths, snr_db from 0 to 20 dB in units of
\* 1 / RandDen dB.
Amp10(snr_db) ==
    AmpFrac(Amp10Table[snr_db \div RandDen + 1], snr_db % RandDen, 1)

\* v * scale, scale in fixed point.
MulScale(v, scale) == (v * scale) \div ScaleOne

\* ---------------------------------------------------------- the compositor

\* start_idx = int(start_time_s * SR), start_time_s >= 0 in onset ticks
StartIdx(start_time) == SamplesIn(start_time, OnsetTicks \div 128)

\* end_idx = min(start_idx + len(event), len(signal))
EndIdx(signal, event, start_time) ==
    Min(StartIdx(start_time) + BufLen(event), BufLen(signal))

\* event_len = end_idx - start_idx
EventLen(signal, event, start_time) ==
    EndIdx(signal, event, start_time) - StartIdx(start_time)

\* A gain branch that tests the power of the event alone.
GainMutEventOnly(seg, ev, np) == PowerAboveEps(ev, np.event, np.rule)

\* The branch of the gain: both powers above the epsilon.  np holds the
\* dtype of the signal, the dtype of the event and the promotion rule.
GainIsScaled(seg, ev, np) ==
    /\ PowerAboveEps(ev, np.event, np.rule)
    /\ PowerAboveEps(seg, np.signal, np.rule)

\* sqrt(signal_power / event_power) * 10 ** (snr_db / 20); the two means are
\* over the same number of samples, so their ratio is the ratio of the sums.
ScaledGain(seg, ev, snr_db) ==
    (Isqrt(RatioFP(SumSq(seg), SumSq(ev))) * Amp10(snr_db)) \div 100

\* scale, for the overlapped segment of the signal and of the event.
Scale(seg, ev, snr_db, np) ==
    IF GainIsScaled(seg, ev, np) THEN ScaledGain(seg, ev, snr_db) ELSE ScaleOne

RECURSIVE AddScaled(_, _, _)
\* seg + ev * scale, two arrays of one length.
AddScaled(seg, ev, scale) ==
    IF seg = <<>> \/ ev = <<>> THEN <<>>
    ELSE LET m == Min(Head(seg).n, Head(ev).n) IN
         <<[n |-> m, v |-> Head(seg).v + MulScale(Head(ev).v, scale)]>>
             \o AddScaled(Drop(seg, m), Drop(ev, m), scale)

\* An overlay that appends the part of the event past the window.
OverlayMutGrow(signal, event, start_idx, end_idx, scale) ==
    Canon(Take(signal, start_idx)
          \o AddScaled(Slice(signal, start_idx, end_idx),
                       Take(event, end_idx - start_idx), scale)
          \o Drop(signal, end_idx)
          \o Drop(event, end_idx - start_idx))

\* signal[start_idx:end_idx] += event[:event_len] * scale
Overlay(signal, event, start_idx, end_idx, scale) ==
    Canon(Take(signal, start_idx)
          \o AddScaled(Slice(signal, start_idx, end_idx),
                       Take(event, end_idx - start_idx), scale)
          \o Drop(signal, end_idx))

\* The gain add_event_at_time applies; ScaleOne when it returns early.
GainOf(signal, event, start_time, snr_db, np) ==
    LET s == StartIdx(start_time)
        e == EndIdx(signal, event, start_time)
        event_len == EventLen(signal, event, start_time)
    IN IF event_len <= 0 THEN ScaleOne
       ELSE Scale(Slice(signal, s, e), Take(event, event_len), snr_db, np)

add_event_at_time(signal, event, start_time, snr_db, np) ==
    LET s == StartIdx(start_time)
        e == EndIdx(signal, event, start_time)
    IN IF EventLen(signal, event, start_time) <= 0 THEN signal
       ELSE Overlay(signal, event, s, e,
                    GainOf(signal, event, start_time, snr_db, np))


\* 0.9, the default max_amp of normalize, in the units of a normalized buffer.
MaxAmpUnits == (9 * OutScale) \div 10

\* A normalization that leaves the sample as it is.
NormSampleMutNoScale(v, peak, max_amp) == v

\* v / peak * max_amp for one sample; v and peak in one unit, the result in
\* the unit of max_amp.
NormSample(v, peak, max_amp) ==
    IF v < 0 THEN -((-v * max_amp) \div peak) ELSE (v * max_amp) \div peak

\* peak > 1e-10, peak >= 0 in sample units: 1e-10 is above 0 and below one
\* unit.
PeakAboveEps(peak) == peak > 0

\* normalize(x, max_amp), x not empty (np.max raises on an empty array).
normalize(x, max_amp) ==
    LET peak == Peak(x) IN
    IF PeakAboveEps(peak)
    THEN Canon([k \in 1..Len(x) |-> [n |-> x[k].n, v |-> NormSample(x[k].v, peak, max_amp)]])
    ELSE x

\* -------------------------------------------------------------- generators

\* The sample levels a randn() noise vector gives a waveform.
NoiseLevels == {0, 1, 2}

\* The level a drawn frequency gives a tonal waveform, c in 0 .. RandDen-1.
ToneLevel(c) == 1 + (c % 2)

\* int(SR * duration_s)
NumSamples(duration) == SamplesIn(Ticks(duration), DurTicks \div 128)

\* gen_background: hum * mod + noise; two rand() draws and one randn().
gen_background(duration, lvl) == Const(NumSamples(duration), lvl)

\* A waveform whose sample at t = 0 is zero: sin(0), the envelope at 0, or
\* the leading zero of the differenced noise.
ZeroOnset(n, lvl) == Canon(Const(Min(n, 1), 0) \o Const(n - 1, lvl))

\* gen_beep: one rand() draw (freq).
gen_beep(duration, c) == ZeroOnset(NumSamples(duration), ToneLevel(c))

\* length = int(0.03 * SR)
ClickLen == (3 * SR) \div 100

\* gen_click: the impulse x[0] = 1.0 plus a randn() noise tail.
gen_click(lvl) == Canon(Const(1, lvl + 1) \o Const(ClickLen - 1, lvl))

\* gen_whoosh: one randn() draw.
gen_whoosh(duration, lvl) == ZeroOnset(NumSamples(duration), lvl)

\* gen_knock: one rand() draw (freq).
gen_knock(duration, c) == ZeroOnset(NumSamples(duration), ToneLevel(c))

\* The dtype of the array a generator returns: gen_background, gen_beep and
\* gen_knock end in astype(np.float32); gen_click and gen_whoosh multiply a
\* float32 array by a float64 one.
GenDType(f) ==
    IF f \in {"gen_click", "gen_whoosh"} THEN "float64" ELSE "float32"

\* event_funcs = [gen_beep, gen_click, gen_whoosh, gen_knock]
event_funcs == <<"gen_beep", "gen_click", "gen_whoosh", "gen_knock">>

\* event_dur = 0.3 + 2.0 * np.random.rand(), rand() = c / RandDen, rounded up
\* to a duration: int(SR * event_dur) is that of the code's float,
\* 4800 + 32000 * c / RandDen.
EventDur(c) ==
    ((3 * DurTicks + 9) \div 10 + (2 * DurTicks * c) \div RandDen) \div 2

\* The result set of the waveform draw of an event generator.
WaveDraws(f) ==
    IF f \in {"gen_click", "gen_whoosh"} THEN NoiseLevels ELSE 0..(RandDen - 1)

\* event = event_func() or event_func(event_dur)
GenEvent(f, cd, w) ==
    CASE f = "gen_click" -> gen_click(w)
      [] f = "gen_beep" -> gen_beep(EventDur(cd), w)
      [] f = "gen_whoosh" -> gen_whoosh(EventDur(cd), w)
      [] f = "gen_knock" -> gen_knock(EventDur(cd), w)

\* A latest onset that forgets the length of the event.
MaxStartMutNoLen(duration, event) == duration

\* max_start = duration - (len(event) / SR), in units of 1 / 2^(SubBits + 1)
\* of a sample period, in which it is a whole, odd number.
MaxStart(duration, event) ==
    125 * Ticks(duration) - BufLen(event) * 2 ^ (SubBits + 1)

\* start_time = max_start * np.random.rand(), max_start > 0, rand() =
\* c / RandDen, in onset ticks, rounded up to a tick.  The product is
\* max_start * c / 2^(SubBits + 1 + RandBits) sample periods, and an onset
\* tick is 125 / 2^(8 + SubBits + RandBits) of one.
StartTime(max_start, c) == (max_start * c * 128 + 124) \div 125

\* snr = 5 + 15 * np.random.rand(), in units of 1 / RandDen dB.
SnrDraw(c) == 5 * RandDen + 15 * c

\* A randint whose upper end is included.
RandintMutClosed(low, high) == low..high

\* np.random.randint(low, high): the values low .. high-1; raises when
\* low >= high.
Randint(low, high) == low..(high - 1)

\* A seed call that leaves the process's own stream in place.
SeedMutKeep(seed, old) == old

\* np.random.seed(seed): the stream restarts at the seed's sequence.
SeedRng(seed, old) == [key |-> seed, pos |-> 0]

\* The draws of one event iteration, in the order the code makes them.
EventDraws(f, fits) ==
    <<"type">>
    \o (IF f = "gen_click" THEN <<"param">> ELSE <<"param", "param">>)
    \o (IF fits THEN <<"onset", "snr">> ELSE <<>>)


\* ------------------------------------------------------------------ state

VARIABLES
    pc,        \* where the program is
    args,      \* the parsed command line of main
    run,       \* 0: a single run; 1, 2: the first and second of two runs
    i,         \* the index of the batch loop
    n_events,  \* n_events of the current mixture
    j,         \* event iterations done in the current mixture
    mix,       \* the mixture buffer (the compositor's signal)
    bg,        \* the buffer as it was before any event was overlaid
    audio,     \* the buffer generate_mixture returned last
    written,   \* the file indices written
    failed,    \* the file indices whose write raised
    rng,       \* the state of np.random: the stream and the position in it
    nseed,     \* calls of np.random.seed so far
    log,       \* the draws of the current loop iteration, in order
    call,      \* the last call of add_event_at_time, or of a generator
    ncalls,    \* calls of add_event_at_time in the current mixture
    tape,      \* per stream, the values it has yielded (kept in two-run mode)
    outs,      \* the (file index, buffer) outputs of this run (two-run mode)
    first,     \* the outputs and draws of the first of two runs
    disk,      \* the files and folders the program finds and leaves
    tool,      \* the calls of an external tool (ffmpeg, Scaper), in order
    promotion, \* the promotion rule of the installed numpy
    files      \* the list a standardization batch has discovered

vars ==
    <<pc, args, run, i, n_events, j, mix, bg, audio, written, failed, rng,
      nseed, log, call, ncalls, tape, outs, first, disk, tool, promotion, files>>

\* More bounds of the explored inputs.
MaxNum == 2

MaxEvents == 2

MaxWork == 4

Seeds == {42}

StartIndices == {0, 3}

\* A duration of w sample periods and a fraction of one.
Dur(w) == (w * 2 ^ SubBits) \div 125 + 1

\* A duration in which a tonal event (0.3 s at least) fits.
TonalDuration == Dur((3 * SR) \div 10 + 1)

\* Durations shorter than a sample, of one sample and a fraction, just above
\* and a few samples above a click, and just above the shortest tonal event.
Durations == {0, Dur(1), Dur(ClickLen), Dur(ClickLen + 3), TonalDuration}

NoCall == [kind |-> "none"]

\* n_events=None, the default of generate_mixture.
None == -1

\* The stream np.random reads before any seed: the process's own entropy.
Unseeded(r) == [key |-> -(r + 1), pos |-> 0]

StreamKeys == Seeds \cup {-1, -2, -3}

\* The event iterations a run can make, those of a duration in which every
\* event type fits counted twice, weighted by the bits of a draw.
Work(a) ==
    a.num * a.max_events * (IF a.duration >= TonalDuration THEN 2 ELSE 1)
        * RandBits

ArgSets ==
    {a \in [seed : Seeds, num : 0..MaxNum, duration : Durations,
            start_index : StartIndices, min_events : 0..MaxEvents,
            max_events : 0..MaxEvents] : Work(a) <= MaxWork}

ProcessStart(a, r) ==
    /\ pc = "start"
    /\ args = a
    /\ run = r
    /\ i = 0
    /\ n_events = 0
    /\ j = 0
    /\ mix = <<>>
    /\ bg = <<>>
    /\ audio = <<>>
    /\ written = {}
    /\ failed = {}
    /\ rng = Unseeded(r)
    /\ nseed = 0
    /\ log = <<>>
    /\ call = NoCall
    /\ ncalls = 0
    /\ outs = <<>>
    /\ disk = <<>>
    /\ tool = <<>>
    /\ promotion \in Promotions
    /\ files = <<>>

Init ==
    /\ \E a \in ArgSets : ProcessStart(a, 0)
    /\ tape = [k \in StreamKeys |-> <<>>]
    /\ first = [outs |-> <<>>, draws |-> <<>>, done |-> FALSE]

\* ----------------------------------------------------------- random stream

\* The values ds are what the stream yields next: in two-run mode a value
\* the stream has yielded before at a position is yielded there again.
DrawsOK(ds) ==
    run = 0 \/ \A k \in 1..Len(ds) :
        rng.pos + k <= Len(tape[rng.key]) => tape[rng.key][rng.pos + k] = ds[k]

Consume(ds) ==
    /\ DrawsOK(ds)
    /\ rng' = [rng EXCEPT !.pos = IF run = 0 THEN 0 ELSE @ + Len(ds)]
    /\ tape' = IF run = 0 \/ rng.pos + Len(ds) <= Len(tape[rng.key]) THEN tape
               ELSE [tape EXCEPT ![rng.key] = SubSeq(@, 1, rng.pos) \o ds]

\* ------------------------------------------------------------------- main

\* np.random.seed(args.seed)
Seed ==
    /\ pc = "start"
    /\ rng' = SeedRng(args.seed, rng)
    /\ nseed' = nseed + 1
    /\ pc' = "loop"
    /\ UNCHANGED <<args, run, i, n_events, j, mix, bg, audio, written, failed,
                   log, call, ncalls, tape, outs, first, disk, tool, promotion, files>>

\* for i in range(args.num): n_events = np.random.randint(min, max + 1)
LoopIter ==
    /\ pc = "loop"
    /\ i < args.num
    /\ Randint(args.min_events, args.max_events + 1) # {}
    /\ \E k \in Randint(args.min_events, args.max_events + 1) :
          /\ Consume(<<k>>)
          /\ n_events' = k
    /\ log' = <<"count">>
    /\ j' = 0
    /\ ncalls' = 0
    /\ call' = NoCall
    /\ pc' = "background"
    /\ UNCHANGED <<args, run, i, mix, bg, audio, written, failed, nseed,
                   outs, first, disk, tool, promotion, files>>

\* randint raises ValueError when min_events > max_events.
LoopIterRaises ==
    /\ pc = "loop"
    /\ i < args.num
    /\ Randint(args.min_events, args.max_events + 1) = {}
    /\ pc' = "crashed"
    /\ UNCHANGED <<args, run, i, n_events, j, mix, bg, audio, written, failed,
                   rng, nseed, log, call, ncalls, tape, outs, first, disk, tool, promotion, files>>

\* The loop is over: the closing print.
LoopEnd ==
    /\ pc = "loop"
    /\ i >= args.num
    /\ pc' = "done"
    /\ UNCHANGED <<args, run, i, n_events, j, mix, bg, audio, written, failed,
                   rng, nseed, log, call, ncalls, tape, outs, first, disk, tool, promotion, files>>

\* generate_mixture: mix = gen_background(duration)
Background ==
    /\ pc = "background"
    /\ \E hum \in 0..(RandDen - 1), mod \in 0..(RandDen - 1), lvl \in NoiseLevels :
          /\ Consume(<<hum, mod, lvl>>)
          /\ mix' = gen_background(args.duration, lvl)
    /\ bg' = mix'
    /\ log' = log \o <<"background", "background", "background">>
    /\ pc' = IF n_events = None THEN "count" ELSE "events"
    /\ UNCHANGED <<args, run, i, n_events, j, audio, written, failed, nseed,
                   call, ncalls, outs, first, disk, tool, promotion, files>>

\* if n_events is None: n_events = np.random.randint(1, 5)
CountDraw ==
    /\ pc = "count"
    /\ \E k \in Randint(1, 5) :
          /\ Consume(<<k>>)
          /\ n_events' = k
    /\ log' = Append(log, "count")
    /\ pc' = "events"
    /\ UNCHANGED <<args, run, i, j, mix, bg, audio, written, failed, nseed,
                   call, ncalls, outs, first, disk, tool, promotion, files>>

\* The result set of the event_dur draw; gen_click takes no duration.
DurDraws(f) == IF f = "gen_click" THEN {0} ELSE 0..(RandDen - 1)

\* One iteration of for _ in range(n_events).
EventIter ==
    /\ pc = "events"
    /\ j < n_events
    /\ \E t \in 1..Len(event_funcs) :
       LET f == event_funcs[t] IN
       \E cd \in DurDraws(f), w \in WaveDraws(f) :
       LET event == GenEvent(f, cd, w)
           max_start == MaxStart(args.duration, event)
           made == IF f = "gen_click" THEN <<t, w>> ELSE <<t, cd, w>>
           np == [signal |-> GenDType("gen_background"), event |-> GenDType(f),
                  rule |-> promotion]
       IN IF max_start > 0
          THEN \E cs \in 0..(RandDen - 1), cn \in 0..(RandDen - 1) :
               LET start_time == StartTime(max_start, cs)
                   snr == SnrDraw(cn)
               IN /\ Consume(made \o <<cs, cn>>)
                  /\ mix' = add_event_at_time(mix, event, start_time, snr, np)
                  /\ call' = [kind |-> "compositor", signal |-> mix,
                              event |-> event, start_time |-> start_time,
                              snr_db |-> snr,
                              scale |-> GainOf(mix, event, start_time, snr, np)]
                  /\ ncalls' = ncalls + 1
                  /\ log' = log \o EventDraws(f, TRUE)
          ELSE /\ Consume(made)
               /\ log' = log \o EventDraws(f, FALSE)
               /\ UNCHANGED <<mix, call, ncalls>>
    /\ j' = j + 1
    /\ UNCHANGED <<pc, args, run, i, n_events, bg, audio, written, failed,
                   nseed, outs, first, disk, tool, promotion, files>>

\* return normalize(mix)
Normalize ==
    /\ pc = "events"
    /\ j >= n_events
    /\ mix # <<>>
    /\ audio' = normalize(mix, MaxAmpUnits)
    /\ pc' = IF "num" \in DOMAIN args THEN "write" ELSE "returned"
    /\ UNCHANGED <<args, run, i, n_events, j, mix, bg, written, failed, rng,
                   nseed, log, call, ncalls, tape, outs, first, disk, tool, promotion, files>>

\* np.max raises ValueError on the empty buffer of a duration below a sample.
NormalizeRaises ==
    /\ pc = "events"
    /\ j >= n_events
    /\ mix = <<>>
    /\ pc' = "crashed"
    /\ UNCHANGED <<args, run, i, n_events, j, mix, bg, audio, written, failed,
                   rng, nseed, log, call, ncalls, tape, outs, first, disk, tool, promotion, files>>

\* The iteration is over: its buffers and counters are dead until the next
\* iteration binds them again.
IterationOver ==
    /\ n_events' = 0
    /\ j' = 0
    /\ mix' = <<>>
    /\ bg' = <<>>
    /\ audio' = <<>>
    /\ log' = <<>>
    /\ call' = NoCall
    /\ ncalls' = 0

\* sf.write(out_path, audio, ...) returns, and the loop goes on.
WriteFile ==
    /\ pc = "write"
    /\ written' = written \cup {args.start_index + i}
    /\ outs' = IF run = 0 THEN outs ELSE Append(outs, <<args.start_index + i, audio>>)
    /\ i' = i + 1
    /\ pc' = "loop"
    /\ IterationOver
    /\ UNCHANGED <<args, run, failed, rng, nseed, tape, first, disk, tool, promotion, files>>

\* sf.write raises: nothing in main catches it, the process ends.
WriteFileRaises ==
    /\ pc = "write"
    /\ failed' = failed \cup {args.start_index + i}
    /\ pc' = "aborted"
    /\ UNCHANGED <<args, run, i, n_events, j, mix, bg, audio, written, rng,
                   nseed, log, call, ncalls, tape, outs, first, disk, tool, promotion, files>>

Next ==
    \/ Seed
    \/ LoopIter
    \/ LoopIterRaises
    \/ LoopEnd
    \/ Background
    \/ EventIter
    \/ Normalize
    \/ NormalizeRaises
    \/ WriteFile
    \/ WriteFileRaises

Spec == Init /\ [][Next]_vars


\* ------------------------------------------- a second run of the same batch

Terminal == {"done", "aborted", "crashed"}

\* The draws this process has made since its stream was set.
DrawsMade == SubSeq(tape[rng.key], 1, rng.pos)

\* The first process has ended; the same command line is run again.
SecondRun ==
    /\ run = 1
    /\ pc \in Terminal
    /\ first' = [outs |-> outs, draws |-> DrawsMade, done |-> TRUE]
    /\ run' = 2
    /\ pc' = "start"
    /\ i' = 0
    /\ written' = {}
    /\ failed' = {}
    /\ rng' = Unseeded(2)
    /\ nseed' = 0
    /\ outs' = <<>>
    /\ IterationOver
    /\ UNCHANGED <<args, tape, disk, tool, promotion, files>>

\* Two runs of at most two mixtures, or of one mixture of at most one event,
\* each run with half the work of a single one.
PairArgSets ==
    {a \in ArgSets : /\ a.num \in 1..2
                     /\ a.num * a.max_events <= 1
                     /\ 2 * Work(a) <= MaxWork}

InitPair ==
    /\ \E a \in PairArgSets : ProcessStart(a, 1)
    /\ tape = [k \in StreamKeys |-> <<>>]
    /\ first = [outs |-> <<>>, draws |-> <<>>, done |-> FALSE]

NextPair == Next \/ SecondRun

SpecPair == InitPair /\ [][NextPair]_vars

\* ------------------------------------------ the compositor called directly

SampleVals == {0, 1, 2}

\* The arrays of at most n samples.
Buffers(n) == {FromSeq(s) : s \in UNION {[1..k -> SampleVals] : k \in 0..n}}

\* Onsets from 0 to past the end of the longest buffer, in steps of half a
\* sample period rounded up to an onset tick.
OnsetStep == OnsetTicks \div (2 * SR) + 1

Onsets == {t * OnsetStep : t \in 0..((MaxLen + 1) * 2)}

\* 6 dB and 20 dB.
ApiSnr == {6 * RandDen, 20 * RandDen}

IdleArgs ==
    [seed |-> 0, num |-> 0, duration |-> 0, start_index |-> 0,
     min_events |-> 0, max_events |-> 0]

Idle(p) ==
    /\ pc = p
    /\ args = IdleArgs
    /\ run = 0
    /\ i = 0
    /\ n_events = 0
    /\ j = 0
    /\ mix = <<>>
    /\ bg = <<>>
    /\ audio = <<>>
    /\ written = {}
    /\ failed = {}
    /\ rng = Unseeded(0)
    /\ nseed = 0
    /\ log = <<>>
    /\ call = NoCall
    /\ ncalls = 0
    /\ outs = <<>>
    /\ tape = [k \in StreamKeys |-> <<>>]
    /\ first = [outs |-> <<>>, draws |-> <<>>, done |-> FALSE]
    /\ disk = <<>>
    /\ tool = <<>>
    /\ promotion \in Promotions
    /\ files = <<>>

InitCompositor == Idle("api")

\* add_event_at_time(signal, event, start_time_s, snr_db) on any arrays.
ApiCall ==
    /\ pc = "api"
    /\ \E signal \in Buffers(MaxLen), event \in Buffers(MaxLen),
          start_time \in Onsets, snr \in ApiSnr, sd \in DTypes, ed \in DTypes :
          LET np == [signal |-> sd, event |-> ed, rule |-> promotion] IN
          /\ mix' = add_event_at_time(signal, event, start_time, snr, np)
          /\ bg' = signal
          /\ call' = [kind |-> "compositor", signal |-> signal,
                      event |-> event, start_time |-> start_time,
                      snr_db |-> snr,
                      scale |-> GainOf(signal, event, start_time, snr, np)]
    /\ ncalls' = 1
    /\ pc' = "called"
    /\ UNCHANGED <<args, run, i, n_events, j, audio, written, failed, rng,
                   nseed, log, tape, outs, first, disk, tool, promotion, files>>

SpecCompositor == InitCompositor /\ [][ApiCall]_vars

\* generate_mixture(duration, n_events) called directly: the count omitted
\* for the durations in which no event fits, given for the others too.
MixArgSets ==
    {a \in [duration : {0, Dur(1), Dur(ClickLen)},
            n_events : {None} \cup 0..MaxEvents] :
        a.n_events = None => a.duration < Dur(ClickLen)}

InitMixture ==
    /\ pc = "background"
    /\ args \in MixArgSets
    /\ n_events = args.n_events
    /\ run = 0
    /\ i = 0
    /\ j = 0
    /\ mix = <<>>
    /\ bg = <<>>
    /\ audio = <<>>
    /\ written = {}
    /\ failed = {}
    /\ rng = Unseeded(0)
    /\ nseed = 0
    /\ log = <<>>
    /\ call = NoCall
    /\ ncalls = 0
    /\ outs = <<>>
    /\ tape = [k \in StreamKeys |-> <<>>]
    /\ first = [outs |-> <<>>, draws |-> <<>>, done |-> FALSE]
    /\ disk = <<>>
    /\ tool = <<>>
    /\ promotion \in Promotions
    /\ files = <<>>

\* The batch, and generate_mixture and the compositor called directly.
InitAll == Init \/ InitCompositor \/ InitMixture

NextAll == Next \/ ApiCall \/ CountDraw

SpecAll == InitAll /\ [][NextAll]_vars

\* ------------------------------------------ the generators called directly

\* create_synthetic_soundbank.normalize: m < 1e-9 returns x unscaled.
sb_normalize(x) ==
    LET m == Peak(x) IN
    IF m = 0 THEN x
    ELSE Canon([k \in 1..Len(x) |-> [n |-> x[k].n, v |-> NormSample(x[k].v, m, MaxAmpUnits)]])

\* create_synthetic_soundbank.gen_background: one randn() draw.
sb_gen_background(duration, lvl) == sb_normalize(Const(NumSamples(duration), lvl))

\* create_synthetic_soundbank.gen_beep: no draw.
sb_gen_beep(duration) == sb_normalize(ZeroOnset(NumSamples(duration), 1))

\* create_synthetic_soundbank.gen_chime: no draw.
sb_gen_chime(duration) == sb_normalize(ZeroOnset(NumSamples(duration), 2))

\* create_synthetic_soundbank.gen_whoosh: one randn() draw.
sb_gen_whoosh(duration, lvl) == sb_normalize(ZeroOnset(NumSamples(duration), lvl))

Generators ==
    {"gen_background", "gen_beep", "gen_whoosh", "gen_knock",
     "sb_gen_background", "sb_gen_beep", "sb_gen_chime", "sb_gen_whoosh"}

\* The result set of the generator's draw that sets its level.
LevelDraws(g) ==
    CASE g \in {"gen_beep", "gen_knock"} -> 0..(RandDen - 1)
      [] g \in {"sb_gen_beep", "sb_gen_chime"} -> {0}
      [] OTHER -> NoiseLevels

Generate(g, d, w) ==
    CASE g = "gen_background" -> gen_background(d, w)
      [] g = "gen_beep" -> gen_beep(d, w)
      [] g = "gen_whoosh" -> gen_whoosh(d, w)
      [] g = "gen_knock" -> gen_knock(d, w)
      [] g = "sb_gen_background" -> sb_gen_background(d, w)
      [] g = "sb_gen_beep" -> sb_gen_beep(d)
      [] g = "sb_gen_chime" -> sb_gen_chime(d)
      [] g = "sb_gen_whoosh" -> sb_gen_whoosh(d, w)

\* Durations up to 2 * (MaxLen + 1) sample periods.
GenDurations == 0..((2 * (MaxLen + 1) * 2 ^ SubBits) \div 125)

\* The soundbank generators end in normalize, whose np.max raises on the
\* empty array of a duration below one sample.
GenRaises(g, d) ==
    g \in {"sb_gen_background", "sb_gen_beep", "sb_gen_chime", "sb_gen_whoosh"}
    /\ NumSamples(d) = 0

InitGenerators == Idle("gen_in")

GenCall ==
    /\ pc = "gen_in"
    /\ \E g \in Generators, d \in GenDurations : \E w \in LevelDraws(g) :
          /\ ~GenRaises(g, d)
          /\ mix' = Generate(g, d, w)
          /\ call' = [kind |-> "generator", gen |-> g, duration |-> d]
    /\ pc' = "gen_out"
    /\ UNCHANGED <<args, run, i, n_events, j, bg, audio, written, failed, rng,
                   nseed, log, ncalls, tape, outs, first, disk, tool, promotion, files>>

GenCallRaises ==
    /\ pc = "gen_in"
    /\ \E g \in Generators, d \in GenDurations :
          /\ GenRaises(g, d)
          /\ call' = [kind |-> "generator", gen |-> g, duration |-> d]
    /\ pc' = "crashed"
    /\ UNCHANGED <<args, run, i, n_events, j, mix, bg, audio, written, failed,
                   rng, nseed, log, ncalls, tape, outs, first, disk, tool, promotion, files>>

NextGenerators == GenCall \/ GenCallRaises

SpecGenerators == InitGenerators /\ [][NextGenerators]_vars


\* ------------------------------------------------ the standardization batches

\* prepare_cry_dataset.py, standardize_non_cry.py, standardize_noncry_dataset.py
Scripts == {"prepare_cry_dataset", "standardize_non_cry", "standardize_noncry_dataset"}

\* Longest list a batch discovers.
MaxFiles == 2

\* A destination path that holds no file.
Absent == [src |-> 0, by |-> -1, whole |-> FALSE]

\* A destination file left by something before the batches of the model.
Old == [src |-> 0, by |-> 0, whole |-> TRUE]

\* dst.exists()
Exists(c) == c # Absent

\* What ffmpeg writes at dst from the source src, in the run r.
Transcoded(src, r) == [src |-> src, by |-> r, whole |-> TRUE]

\* What a failing ffmpeg can leave at dst: what was there, or (it runs with
\* -y) a part of its output.
FailureLeaves(old, src, r) == {old, [src |-> src, by |-> r, whole |-> FALSE]}

\* A skip test that never skips.
SkipMutNever(exists, overwrite) == FALSE

\* if dst.exists() and not overwrite: return / continue
SkipExisting(exists, overwrite) == exists /\ ~overwrite

\* A conversion whose RuntimeError is not caught.
AfterFailureMutRaise(script) == "std_aborted"

\* except Exception as e: print(...); the loop goes on.
AfterFailure(script) == "std_loop"

\* print(f"[WARN] Failed ... {src}: {e}")
WarnEntry(src) == [level |-> "WARN", path |-> src]

\* dst = out_root / f"{prefix}_{idx:05d}.wav" for the idx-th discovered file
\* (enumerate counts from 0, the list from 1).
DstIndex(idx) == idx

SrcAt(fl, idx) == fl[idx + 1]

\* The scripts that make out_root before they look for ffmpeg.
MakesOutRootFirst(script) == script \in {"prepare_cry_dataset", "standardize_non_cry"}

\* The variables the standardization batches and the Scaper path leave alone.
unused ==
    <<n_events, j, mix, bg, audio, failed, rng, call, ncalls, tape, outs,
      promotion>>

\* The audio files under in_root that are at no destination path: the
\* sources 1 .. n, in the order os.walk gives them.
FileLists == {[k \in 1..n |-> k] : n \in 0..MaxFiles}

\* The destination folder before the batch: any of the paths a batch can
\* reach may hold a file.
DstStates == [0..(MaxFiles - 1) -> {Absent, Old}]

\* The file at the destination path x, as a source.
OutFile(x) == -(x + 1)

\* list(discover(in_root)): os.walk yields every audio file under in_root.
\* When out_root is in_root or lies in it, the destination files that exist
\* (their suffix is .wav) are among them, at the places the order of the
\* folders' entries gives them; the sources keep their order.
Discover(d) ==
    LET found == {d.sources[k] : k \in DOMAIN d.sources}
                 \cup (IF d.nested
                       THEN {OutFile(x) : x \in {y \in DOMAIN d.dst : Exists(d.dst[y])}}
                       ELSE {})
        n == Cardinality(found)
    IN {q \in [1..n -> found] :
           \A a, b \in 1..n :
               /\ a # b => q[a] # q[b]
               /\ (a < b /\ q[a] > 0 /\ q[b] > 0) => q[a] < q[b]}

\* The folders before the first batch.  With out_root under in_root the
\* second batch can find the files the first found and one output of each:
\* the first finds half of MaxFiles at most.
InitStandardize ==
    /\ pc = "std_start"
    /\ args \in [script : Scripts, overwrite : BOOLEAN]
    /\ disk \in [ffmpeg : BOOLEAN, sources : FileLists, nested : BOOLEAN,
                dst : DstStates, out_root : BOOLEAN]
    /\ LET found == {x \in DOMAIN disk.dst : Exists(disk.dst[x])} IN
          /\ found # {} => disk.out_root
          /\ disk.nested =>
                2 * (Len(disk.sources) + Cardinality(found)) <= MaxFiles
    /\ run = 1
    /\ i = 0
    /\ log = <<>>
    /\ tool = <<>>
    /\ promotion \in Promotions
    /\ files = <<>>
    /\ first = [disk |-> <<>>, tool |-> <<>>, done |-> FALSE]
    /\ n_events = 0
    /\ j = 0
    /\ mix = <<>>
    /\ bg = <<>>
    /\ audio = <<>>
    /\ written = {}
    /\ failed = {}
    /\ rng = Unseeded(0)
    /\ nseed = 0
    /\ call = NoCall
    /\ ncalls = 0
    /\ outs = <<>>
    /\ tape = [k \in StreamKeys |-> <<>>]

\* find_ffmpeg() returns None: the error is printed and main returns.
StdNoFfmpeg ==
    /\ pc = "std_start"
    /\ ~disk.ffmpeg
    /\ disk' = [disk EXCEPT !.out_root = @ \/ MakesOutRootFirst(args.script)]
    /\ log' = Append(log, [level |-> "ERROR", path |-> 0])
    /\ pc' = "std_returned"
    /\ UNCHANGED <<args, run, i, tool, first, written, nseed, files>>
    /\ UNCHANGED unused

\* files = list(discover(in_root)); if not files: return
StdNoFiles ==
    /\ pc = "std_start"
    /\ disk.ffmpeg
    /\ files' \in Discover(disk)
    /\ files' = <<>>
    /\ disk' = [disk EXCEPT !.out_root = @ \/ MakesOutRootFirst(args.script)]
    /\ pc' = "std_returned"
    /\ UNCHANGED <<args, run, i, log, tool, first, written, nseed>>
    /\ UNCHANGED unused

\* ffmpeg is found and the list discovered now is not empty: the loop
\* starts, over that list.
StdBegin ==
    /\ pc = "std_start"
    /\ disk.ffmpeg
    /\ files' \in Discover(disk)
    /\ files' # <<>>
    /\ disk' = [disk EXCEPT !.out_root = @ \/ MakesOutRootFirst(args.script)]
    /\ pc' = "std_loop"
    /\ UNCHANGED <<args, run, i, log, tool, first, written, nseed>>
    /\ UNCHANGED unused

\* The destination exists and overwrite is not set: nothing is done.
StdSkip ==
    /\ pc = "std_loop"
    /\ i < Len(files)
    /\ SkipExisting(Exists(disk.dst[DstIndex(i)]), args.overwrite)
    /\ i' = i + 1
    /\ UNCHANGED <<pc, args, run, log, tool, first, disk, written, nseed, files>>
    /\ UNCHANGED unused

\* ffmpeg exits with 0: the destination holds the converted source.
StdConvert ==
    /\ pc = "std_loop"
    /\ i < Len(files)
    /\ ~SkipExisting(Exists(disk.dst[DstIndex(i)]), args.overwrite)
    /\ tool' = Append(tool, [name |-> "ffmpeg", src |-> SrcAt(files, i),
                             dst |-> DstIndex(i), rc |-> 0,
                             existed |-> Exists(disk.dst[DstIndex(i)])])
    /\ disk' = [disk EXCEPT !.out_root = TRUE,
                            !.dst[DstIndex(i)] = Transcoded(SrcAt(files, i), run)]
    /\ i' = i + 1
    /\ UNCHANGED <<pc, args, run, log, first, written, nseed, files>>
    /\ UNCHANGED unused

\* ffmpeg exits with a code other than 0: convert raises RuntimeError, the
\* handler prints the warning.
StdConvertFails ==
    /\ pc = "std_loop"
    /\ i < Len(files)
    /\ ~SkipExisting(Exists(disk.dst[DstIndex(i)]), args.overwrite)
    /\ tool' = Append(tool, [name |-> "ffmpeg", src |-> SrcAt(files, i),
                             dst |-> DstIndex(i), rc |-> 1,
                             existed |-> Exists(disk.dst[DstIndex(i)])])
    /\ \E c \in FailureLeaves(disk.dst[DstIndex(i)], SrcAt(files, i), run) :
          disk' = [disk EXCEPT !.out_root = TRUE, !.dst[DstIndex(i)] = c]
    /\ pc' = AfterFailure(args.script)
    /\ log' = IF pc' = "std_loop" THEN Append(log, WarnEntry(SrcAt(files, i)))
              ELSE log
    /\ i' = IF pc' = "std_loop" THEN i + 1 ELSE i
    /\ UNCHANGED <<args, run, first, written, nseed, files>>
    /\ UNCHANGED unused

\* The list is exhausted: print("Done. ...").
StdEnd ==
    /\ pc = "std_loop"
    /\ i >= Len(files)
    /\ pc' = "std_done"
    /\ UNCHANGED <<args, run, i, log, tool, first, disk, written, nseed, files>>
    /\ UNCHANGED unused

\* The script is run again on the same folders, as the first batch left
\* them, with or without --overwrite.
StdRerun ==
    /\ pc \in {"std_done", "std_returned"}
    /\ run = 1
    /\ first' = [disk |-> disk, tool |-> tool, done |-> TRUE]
    /\ run' = 2
    /\ \E o \in BOOLEAN : args' = [args EXCEPT !.overwrite = o]
    /\ pc' = "std_start"
    /\ i' = 0
    /\ log' = <<>>
    /\ tool' = <<>>
    /\ files' = <<>>
    /\ UNCHANGED <<disk, written, nseed>>
    /\ UNCHANGED unused

NextStandardize ==
    \/ StdNoFfmpeg
    \/ StdNoFiles
    \/ StdBegin
    \/ StdSkip
    \/ StdConvert
    \/ StdConvertFails
    \/ StdEnd
    \/ StdRerun

SpecStandardize == InitStandardize /\ [][NextStandardize]_vars


\* ------------------------------------------------- the Scaper generation path

\* What a soundbank folder can hold, at any depth: a file whose name ends in
\* .wav, whole or cut short, a file whose name does not (notes.txt), and a
\* directory whose name ends in .wav.
EntryKinds == {"wav_file", "other_file", "wav_dir"}

\* Path.rglob('*.wav') yields every entry whose name matches, of any type.
NameMatchesWav(e) == e \in {"wav_file", "wav_dir"}

\* A folder that is absent holds nothing.
Folders ==
    {f \in [exists : BOOLEAN, entries : SUBSET EntryKinds] :
        ~f.exists => f.entries = {}}

\* The negation of: not folder.exists() or not any(folder.rglob('*.wav'))
HasWavs(f) == f.exists /\ \E e \in f.entries : NameMatchesWav(e)

\* Scaper has a source file to choose in each bank; without one it raises,
\* and with one it still can (a file cut short).
CanGenerate(d) == "wav_file" \in d.bg.entries /\ "wav_file" \in d.ev.entries

ScaperArgSets ==
    [seed : Seeds, num : 0..MaxNum, min_events : 0..MaxEvents,
     max_events : 0..MaxEvents]

\* build_soundbank(root, n_backgrounds, bg_duration, n_variants), the bank
\* folders of root being those the Scaper path reads.
BankArgSets ==
    [n_backgrounds : 0..MaxNum, bg_duration : {0, Dur(1)}, n_variants : 0..MaxNum]

\* The mixtures are generated from the bank as it is, or after a run of
\* create_synthetic_soundbank.
InitScaper ==
    /\ \/ pc = "sc_start" /\ args \in ScaperArgSets
       \/ pc = "sb_start" /\ args \in BankArgSets
    /\ disk \in [scaper : BOOLEAN, bg : Folders, ev : Folders, out_dir : BOOLEAN]
    /\ run = 0
    /\ i = 0
    /\ log = <<>>
    /\ tool = <<>>
    /\ promotion \in Promotions
    /\ files = <<>>
    /\ first = [outs |-> <<>>, draws |-> <<>>, done |-> FALSE]
    /\ n_events = 0
    /\ j = 0
    /\ mix = <<>>
    /\ bg = <<>>
    /\ audio = <<>>
    /\ written = {}
    /\ failed = {}
    /\ rng = Unseeded(0)
    /\ nseed = 0
    /\ call = NoCall
    /\ ncalls = 0
    /\ outs = <<>>
    /\ tape = [k \in StreamKeys |-> <<>>]

\* write_wav: sf.write(str(path), data.astype(np.float32), SR, ...)
write_wav(label) == [name |-> "sf.write", label |-> label]

\* ensure_dir(bg_label_dir); ensure_dir(evt_root / lbl) for the four labels:
\* both bank folders exist from here on.  The label folders are directories
\* whose name does not end in .wav.
SbMakeDirs ==
    /\ pc = "sb_start"
    /\ disk' = [disk EXCEPT !.bg.exists = TRUE, !.ev.exists = TRUE]
    /\ pc' = "sb_backgrounds"
    /\ UNCHANGED <<args, run, i, n_events, j, mix, bg, audio, written, failed,
                   rng, nseed, log, call, ncalls, tape, outs, first, tool,
                   promotion, files>>

\* mkdir raises FileExistsError when a file sits where a label folder goes,
\* which a file whose name does not end in .wav can: at backgrounds/ambience
\* nothing has been made yet, at events/<label> the background folders have.
\* Nothing in build_soundbank or main catches it.
SbMakeDirsRaises ==
    /\ pc = "sb_start"
    /\ \/ /\ "other_file" \in disk.bg.entries
          /\ UNCHANGED disk
       \/ /\ "other_file" \in disk.ev.entries
          /\ disk' = [disk EXCEPT !.bg.exists = TRUE]
    /\ pc' = "sb_crashed"
    /\ UNCHANGED <<args, run, i, n_events, j, mix, bg, audio, written, failed,
                   rng, nseed, log, call, ncalls, tape, outs, first, tool,
                   promotion, files>>

\* for i in range(n_backgrounds): write_wav(..., gen_background(bg_duration))
SbBackground ==
    /\ pc = "sb_backgrounds"
    /\ j < args.n_backgrounds
    /\ ~GenRaises("sb_gen_background", args.bg_duration)
    /\ disk' = [disk EXCEPT !.bg.entries = @ \cup {"wav_file"}]
    /\ tool' = Append(tool, write_wav("ambience"))
    /\ j' = j + 1
    /\ UNCHANGED <<pc, args, run, i, n_events, mix, bg, audio, written, failed,
                   rng, nseed, log, call, ncalls, tape, outs, first, promotion, files>>

\* The bank folders after a write_wav into f that raised: sf.write failed
\* before it made the file (a directory sits at the path), or after (the
\* disk is full) and the file stays, cut short.
AfterFailedWrite(d, f) ==
    {d, [d EXCEPT ![f].entries = @ \cup {"wav_file"}]}

\* gen_background raises ValueError on a bg_duration below one sample and
\* nothing is written, or sf.write raises: nothing in build_soundbank or
\* main catches it.
SbBackgroundRaises ==
    /\ pc = "sb_backgrounds"
    /\ j < args.n_backgrounds
    /\ IF GenRaises("sb_gen_background", args.bg_duration)
       THEN UNCHANGED disk
       ELSE disk' \in AfterFailedWrite(disk, "bg")
    /\ pc' = "sb_crashed"
    /\ UNCHANGED <<args, run, i, n_events, j, mix, bg, audio, written, failed,
                   rng, nseed, log, call, ncalls, tape, outs, first, tool,
                   promotion, files>>

\* The backgrounds are written: the loop over the variants starts.
SbBackgroundsEnd ==
    /\ pc = "sb_backgrounds"
    /\ j >= args.n_backgrounds
    /\ j' = 0
    /\ pc' = "sb_variants"
    /\ UNCHANGED <<args, run, i, n_events, mix, bg, audio, written, failed,
                   rng, nseed, log, call, ncalls, tape, outs, first, disk, tool,
                   promotion, files>>

\* labels = ['beep', 'click', 'chime', 'whoosh'], in the order a variant
\* writes them.
labels == <<"beep", "click", "chime", "whoosh">>

\* Where the loop over the variants is before it writes each label: at the
\* head of the loop before the beep.
SbPlaces == <<"sb_variants", "sb_click", "sb_chime", "sb_whoosh">>

\* The program is about to write the label k of the variant j.
SbAt(k) == pc = SbPlaces[k] /\ (k = 1 => j < args.n_variants)

\* One write_wav of a variant: a beep, a click, a chime or a whoosh, each of
\* a duration of 0.4 s at least; after the whoosh the next variant.
SbVariant ==
    \E k \in 1..Len(labels) :
        /\ SbAt(k)
        /\ disk' = [disk EXCEPT !.ev.entries = @ \cup {"wav_file"}]
        /\ tool' = Append(tool, write_wav(labels[k]))
        /\ pc' = IF k < Len(labels) THEN SbPlaces[k + 1] ELSE "sb_variants"
        /\ j' = IF k < Len(labels) THEN j ELSE j + 1
        /\ UNCHANGED <<args, run, i, n_events, mix, bg, audio, written, failed,
                       rng, nseed, log, call, ncalls, tape, outs, first,
                       promotion, files>>

\* sf.write raises at one of the four writes: the files written before it
\* stay, the one being written may, nothing catches it.
SbVariantRaises ==
    /\ \E k \in 1..Len(labels) : SbAt(k)
    /\ disk' \in AfterFailedWrite(disk, "ev")
    /\ pc' = "sb_crashed"
    /\ UNCHANGED <<args, run, i, n_events, j, mix, bg, audio, written, failed,
                   rng, nseed, log, call, ncalls, tape, outs, first, tool,
                   promotion, files>>

\* build_soundbank returns; main prints the two folders.
SbEnd ==
    /\ pc = "sb_variants"
    /\ j >= args.n_variants
    /\ pc' = "sb_done"
    /\ UNCHANGED <<args, run, i, n_events, j, mix, bg, audio, written, failed,
                   rng, nseed, log, call, ncalls, tape, outs, first, disk, tool,
                   promotion, files>>

\* The soundbank process has ended; generate_non_cry_with_scaper is run on
\* the bank it left.
ScStart ==
    /\ pc \in {"sb_done", "sb_crashed"}
    /\ \E a \in ScaperArgSets : args' = a
    /\ j' = 0
    /\ tool' = <<>>
    /\ pc' = "sc_start"
    /\ UNCHANGED <<run, i, n_events, mix, bg, audio, written, failed, rng,
                   nseed, log, call, ncalls, tape, outs, first, disk, promotion, files>>

\* import scaper fails: raise SystemExit(...)
ScImportFails ==
    /\ pc = "sc_start"
    /\ ~disk.scaper
    /\ pc' = "sc_exit"
    /\ UNCHANGED <<args, run, i, n_events, j, mix, bg, audio, written, failed,
                   rng, nseed, log, call, ncalls, tape, outs, first, disk, tool, promotion, files>>

\* ensure_dirs(out_dir); np.random.seed(args.seed); random.seed(args.seed)
ScSetup ==
    /\ pc = "sc_start"
    /\ disk.scaper
    /\ disk' = [disk EXCEPT !.out_dir = TRUE]
    /\ rng' = SeedRng(args.seed, rng)
    /\ nseed' = nseed + 1
    /\ pc' = "sc_validate"
    /\ UNCHANGED <<args, run, i, n_events, j, mix, bg, audio, written, failed,
                   log, call, ncalls, tape, outs, first, tool, promotion, files>>

\* One of the two banks fails the validation: raise FileNotFoundError(...),
\* the background bank being looked at first.
ScValidateFails ==
    /\ pc = "sc_validate"
    /\ ~(HasWavs(disk.bg) /\ HasWavs(disk.ev))
    /\ log' = Append(log, [level |-> "FileNotFoundError",
                           path |-> IF ~HasWavs(disk.bg) THEN "bg_folder"
                                    ELSE "event_folder"])
    /\ pc' = "sc_failed"
    /\ UNCHANGED <<args, run, i, n_events, j, mix, bg, audio, written, failed,
                   rng, nseed, call, ncalls, tape, outs, first, disk, tool, promotion, files>>

\* Both banks pass the validation: the loop starts.
ScValidate ==
    /\ pc = "sc_validate"
    /\ HasWavs(disk.bg)
    /\ HasWavs(disk.ev)
    /\ pc' = "sc_loop"
    /\ UNCHANGED <<args, run, i, n_events, j, mix, bg, audio, written, failed,
                   rng, nseed, log, call, ncalls, tape, outs, first, disk, tool, promotion, files>>

\* One iteration: make_scaper, add_random_background, n_events =
\* np_random_int(min_events, max_events), add_event n_events times,
\* sc.generate writes the mixture.
ScGenerate ==
    /\ pc = "sc_loop"
    /\ i < args.num
    /\ CanGenerate(disk)
    /\ \E k \in Randint(args.min_events, args.max_events + 1) :
          /\ Consume(<<k>>)
          /\ n_events' = k
    /\ tool' = Append(tool, [name |-> "scaper", index |-> i, rc |-> 0])
    /\ written' = written \cup {i}
    /\ i' = i + 1
    /\ UNCHANGED <<pc, args, run, j, mix, bg, audio, failed, nseed, log, call,
                   ncalls, outs, first, disk, promotion, files>>

\* One iteration in which Scaper or randint raises: nothing in main catches
\* it.  The mixture file may or may not have been written by then.
ScGenerateRaises ==
    /\ pc = "sc_loop"
    /\ i < args.num
    /\ \E k \in Randint(args.min_events, args.max_events + 1) \cup {n_events} :
          n_events' = k
    /\ \E w \in {written} \cup
                (IF CanGenerate(disk) /\ Randint(args.min_events, args.max_events + 1) # {}
                 THEN {written \cup {i}} ELSE {}) :
          written' = w
    /\ tool' = Append(tool, [name |-> "scaper", index |-> i, rc |-> 1])
    /\ pc' = "sc_crashed"
    /\ UNCHANGED <<args, run, i, j, mix, bg, audio, failed, rng, nseed, log,
                   call, ncalls, tape, outs, first, disk, promotion, files>>

\* The loop is over: print(f"Done. ...").
ScEnd ==
    /\ pc = "sc_loop"
    /\ i >= args.num
    /\ pc' = "sc_done"
    /\ UNCHANGED <<args, run, i, n_events, j, mix, bg, audio, written, failed,
                   rng, nseed, log, call, ncalls, tape, outs, first, disk, tool, promotion, files>>

NextScaper ==
    \/ SbMakeDirs
    \/ SbMakeDirsRaises
    \/ SbBackground
    \/ SbBackgroundRaises
    \/ SbBackgroundsEnd
    \/ SbVariant
    \/ SbVariantRaises
    \/ SbEnd
    \/ ScStart
    \/ ScImportFails
    \/ ScSetup
    \/ ScValidateFails
    \/ ScValidate
    \/ ScGenerate
    \/ ScGenerateRaises
    \/ ScEnd

SpecScaper == InitScaper /\ [][NextScaper]_vars


\* ----------------------------------------------------------------- claims

\* The window of the last compositor call.
CallStart == StartIdx(call.start_time)

CallEnd == EndIdx(call.signal, call.event, call.start_time)

CallSeg == Slice(call.signal, CallStart, CallEnd)

CallEv == Take(call.event, CallEnd - CallStart)

\* C1: an event that does not fit entirely is not placed at all: a call with
\* int(onset * SR) + len(event) > len(buffer) leaves every sample of the
\* buffer as it was.
C1_NoPartialPlacement ==
    (pc = "called" /\ CallStart + BufLen(call.event) > BufLen(call.signal))
        => mix = call.signal

\* C2: every event generate_mixture overlays lies entirely inside the
\* buffer, start index + len(event) <= len(mix), also when SR * duration is
\* not an integer, and an event with max_start <= 0 is never handed to the
\* compositor.
C2_OverlaidEventsFit ==
    (pc \in {"events", "write"} /\ call.kind = "compositor") =>
        /\ CallStart + BufLen(call.event) <= BufLen(call.signal)
        /\ CallStart >= 0
        /\ 125 * (2 * args.duration + 1) > BufLen(call.event) * 2 ^ (SubBits + 1)

\* C2 witness: a click placed in a buffer of 480 samples made from a
\* duration of 480 and a fraction sample periods: the event ends exactly at
\* the end of the buffer.
C2_Witness ==
    /\ pc = "events"
    /\ call.kind = "compositor"
    /\ (125 * (2 * args.duration + 1)) % (2 ^ (SubBits + 1)) # 0
    /\ CallStart + BufLen(call.event) = BufLen(call.signal)
    /\ mix # call.signal

\* C3: the compositor never changes the length of the buffer and changes no
\* sample outside [start_idx, end_idx); after any sequence of compositor
\* calls the buffer is as long as the background.
C3_FrameEffect ==
    /\ BufLen(mix) = BufLen(bg)
    /\ call.kind = "compositor" =>
          /\ BufLen(mix) = BufLen(call.signal)
          /\ IF CallEnd - CallStart <= 0 THEN mix = call.signal
             ELSE /\ Take(mix, CallStart) = Take(call.signal, CallStart)
                  /\ Drop(mix, CallEnd) = Drop(call.signal, CallEnd)

\* C3 witness: the second compositor call of one mixture has changed the
\* buffer.
C3_Witness ==
    /\ pc = "events"
    /\ ncalls = 2
    /\ mix # call.signal
    /\ call.signal # bg

\* C4: a failure while writing the file of index i is caught and the loop
\* goes on to index i + 1: the batch is not aborted, and a batch that has
\* ended has attempted every index below num_samples.
C4_WriteFailureSkipped ==
    failed # {} => /\ pc # "aborted"
                   /\ pc \in Terminal => i = args.num

\* C5: the stream is seeded once, before the loop, and in every loop
\* iteration the draws of the background come before the draw of the event
\* count.
C5_BackgroundThenCount ==
    /\ nseed = (IF pc = "start" THEN 0 ELSE 1)
    /\ \A a, b \in 1..Len(log) :
          (log[a] = "background" /\ log[b] = "count") => a < b

\* One of two sequences is a prefix of the other.
Agree(s, t) ==
    \A k \in 1..Min(Len(s), Len(t)) : s[k] = t[k]

\* C6: two runs with the same seed and the same arguments make the same
\* draws and give the same (file index, buffer) outputs, as far as both
\* get.
C6_Deterministic ==
    run = 2 => /\ Agree(outs, first.outs)
               /\ Agree(DrawsMade, first.draws)
               /\ pc = "done" /\ failed = {} => Len(outs) = args.num

\* C6 witness: the second run has ended after writing the two outputs the
\* first run wrote.
C6_Witness ==
    /\ run = 2
    /\ pc = "done"
    /\ Len(outs) = 2
    /\ outs = first.outs
    /\ outs[1][2] # outs[2][2]

\* Python's round(): to the nearest integer, a tie to the even one.
RoundDiv(a, b) ==
    LET q == a \div b
        r == a % b
    IN IF 2 * r < b THEN q
       ELSE IF 2 * r > b THEN q + 1
       ELSE IF q % 2 = 0 THEN q ELSE q + 1

\* C7: every buffer a duration-parameterised generator returns has
\* round(duration * sample_rate) samples.
C7_LengthIsRounded ==
    pc = "gen_out" => BufLen(mix) = RoundDiv(125 * (2 * call.duration + 1), 2 ^ (SubBits + 1))

\* C8: the peak of the buffer generate_mixture returns is at most 0.9, is
\* 0.9 when the peak of the accumulated buffer is above the epsilon, and an
\* all-silence buffer is returned unscaled, with peak 0.
C8_PeakNormalized ==
    pc = "write" =>
        /\ Peak(audio) <= MaxAmpUnits
        /\ PeakAboveEps(Peak(mix)) => Peak(audio) = MaxAmpUnits
        /\ Peak(mix) = 0 => (audio = mix /\ Peak(audio) = 0)
        /\ BufLen(audio) = BufLen(mix)

\* C8 witness: a mixture with an overlaid event whose peak was not 0.9 is
\* returned with peak 0.9.
C8_Witness ==
    /\ pc = "write"
    /\ ncalls >= 1
    /\ Peak(mix) # MaxAmpUnits
    /\ Peak(mix) # Peak(bg)
    /\ Peak(audio) = MaxAmpUnits

\* C9: with min_events <= max_events the event count k is in
\* min_events .. max_events, the event loop runs k iterations, the
\* compositor is called at most k times, and with min_events =
\* max_events = 0 the output is the normalized background.
C9_EventCount ==
    pc \in {"background", "events", "write"} =>
        /\ args.min_events <= n_events
        /\ n_events <= args.max_events
        /\ j <= n_events
        /\ ncalls <= j
        /\ pc = "write" => j = n_events
        /\ (pc = "write" /\ args.max_events = 0) =>
              (ncalls = 0 /\ mix = bg /\ audio = normalize(bg, MaxAmpUnits))

\* C9 witness: a mixture that drew the upper bound of a proper interval,
\* ran that many iterations and placed fewer events.
C9_Witness ==
    /\ pc = "write"
    /\ args.min_events < args.max_events
    /\ n_events = args.max_events
    /\ j = 2
    /\ ncalls = 1

\* The power test every dtype and every promotion rule passes, and the one
\* that only some pass (the float32 mean is within rounding of the epsilon).
SurelyAbove(b) == \A d \in DTypes, r \in Promotions : PowerAboveEps(b, d, r)

MaybeAbove(b) == \E d \in DTypes, r \in Promotions : PowerAboveEps(b, d, r)

\* C10: the gain is 1.0 when the mean-square power of the overlapped
\* background segment or of the event segment is not above 1e-10, and
\* sqrt(background_power / event_power) * 10^(snr / 20) otherwise, which
\* divides by a power above the epsilon.  A power within float32 rounding of
\* the epsilon is above it for some dtypes and promotion rules only; the
\* gain is then one of the two.
C10_Gain ==
    (pc = "called" /\ CallEnd - CallStart > 0) =>
        LET r == RatioFP(SumSq(CallSeg), SumSq(CallEv))
            scaled ==
                /\ SumSq(CallEv) * 100000 > BufLen(CallEv) * 42949
                /\ call.scale = (Isqrt(r) * Amp10(call.snr_db)) \div 100
                /\ Isqrt(r) * Isqrt(r) <= r
                /\ (Isqrt(r) + 1) * (Isqrt(r) + 1) > r
        IN IF ~MaybeAbove(CallSeg) \/ ~MaybeAbove(CallEv)
           THEN call.scale = ScaleOne
           ELSE IF SurelyAbove(CallSeg) /\ SurelyAbove(CallEv)
           THEN scaled
           ELSE call.scale = ScaleOne \/ scaled

\* C10 witness: an event of power above the epsilon laid on a segment that
\* is not silent and whose power is not above the epsilon, with gain 1.0.
C10_Witness ==
    /\ pc = "called"
    /\ CallEnd - CallStart > 0
    /\ SumSq(CallSeg) > 0
    /\ ~MaybeAbove(CallSeg)
    /\ SurelyAbove(CallEv)
    /\ call.scale = ScaleOne
    /\ mix # call.signal

\* C11: when ffmpeg exits non-zero for one file, the failure is logged with
\* that file's path and the loop goes on: the batch is not aborted, and a
\* batch that has ended has visited every discovered file, each either
\* skipped because its destination exists or handed to ffmpeg.
C11_FailureLoggedBatchContinues ==
    /\ pc # "std_aborted"
    /\ \A k \in 1..Len(tool) :
          tool[k].rc # 0 => \E m \in 1..Len(log) : log[m] = WarnEntry(tool[k].src)
    /\ Len(tool) <= i
    /\ pc = "std_done" =>
          /\ i = Len(files)
          /\ \A d \in 0..(Len(files) - 1) :
                \/ \E k \in 1..Len(tool) :
                      tool[k].dst = d /\ tool[k].src = files[d + 1]
                \/ Exists(disk.dst[d]) /\ ~args.overwrite

\* C11 witness: a batch has ended in which ffmpeg failed for the first file
\* and converted the second.
C11_Witness ==
    /\ pc = "std_done"
    /\ Len(tool) = 2
    /\ tool[1].rc # 0
    /\ tool[2].rc = 0
    /\ log = <<WarnEntry(1)>>
    /\ disk.dst[1] = Transcoded(2, run)

\* The states in which no iteration of the generation loop has run and no
\* mixture has been written.
NothingGenerated == tool = <<>> /\ written = {} /\ i = 0

\* The places of a run of generate_non_cry_with_scaper.
ScaperRun ==
    {"sc_start", "sc_validate", "sc_loop", "sc_exit", "sc_failed",
     "sc_crashed", "sc_done"}

\* C12: if the background or the event soundbank folder is absent
\* or holds no WAV file, the run fails at batch start: no iteration of the
\* loop runs and no mixture file is written.
C12_NoWavFileFailsAtStart ==
    (/\ pc \in ScaperRun
     /\ \/ ~disk.bg.exists \/ "wav_file" \notin disk.bg.entries
        \/ ~disk.ev.exists \/ "wav_file" \notin disk.ev.entries) =>
        /\ NothingGenerated
        /\ pc \in {"sc_start", "sc_validate", "sc_exit", "sc_failed"}

\* C13: without overwrite a destination file that exists is never rewritten:
\* ffmpeg is not invoked for it and it stays as it is; its index is consumed
\* all the same, every converted source going to the index of its position
\* in the discovered list; and a batch run again without overwrite changes
\* no file the first run left, and invokes ffmpeg not at all when the first
\* run left a file at every index of the list the second run discovers.
C13_ExistingNotRewritten ==
    (pc \in {"std_start", "std_loop", "std_done", "std_returned"}) =>
        /\ \A k \in 1..Len(tool) :
              /\ tool[k].src = files[tool[k].dst + 1]
              /\ tool[k].dst < i
              /\ ~args.overwrite => ~tool[k].existed
        /\ (run = 2 /\ ~args.overwrite) =>
              /\ \A d \in DOMAIN disk.dst :
                    Exists(first.disk.dst[d]) => disk.dst[d] = first.disk.dst[d]
              /\ (\A d \in 0..(Len(files) - 1) : Exists(first.disk.dst[d]))
                    => (tool = <<>> /\ disk.dst = first.disk.dst)

\* C13 witness: a batch run again without overwrite has ended; it skipped
\* the first file, whose destination the first run had written, and
\* converted the second, whose conversion had failed, to the second index.
C13_Witness ==
    /\ pc = "std_done"
    /\ run = 2
    /\ ~args.overwrite
    /\ first.disk.dst[0] = Transcoded(1, 1)
    /\ first.disk.dst[1] = Absent
    /\ disk.dst[0] = Transcoded(1, 1)
    /\ disk.dst[1] = Transcoded(2, 2)
    /\ Len(tool) = 1
    /\ tool[1].dst = 1

====
